---- MODULE Spec2Model ----
(***************************************************************************)
(* A model of the sbrk-based allocator of src/main.c: malloc, free, calloc *)
(* and realloc over one singly linked list of block headers, serialised by *)
(* global_malloc_lock.                                                     *)
(*                                                                         *)
(* Threads run the four functions statement by statement: every step that  *)
(* touches shared memory (the list, the break, the lock, payload bytes) is *)
(* one action, so that interleavings of different calls are explored.      *)
(* Addresses and size_t values are WordBits wide; the header layout is the *)
(* LP64 one.  Payload memory is modelled byte by byte; the bytes of a      *)
(* header are marked HdrMark in mem and the header's fields are kept in    *)
(* hdr.  A byte nobody has written since the OS mapped it holds Junk, an   *)
(* indeterminate value that does not read as zero.                         *)
(***************************************************************************)
EXTENDS Integers, Sequences, FiniteSets, TLC

\* ---------------------------------------------------------------- bounds

WordBits == 8
NThreads == 2
MaxReq == 2
MaxHeapBytes == 76
SmallHeapBytes == 52
HeapStartUnits == 1
ScenarioSize == 16

\* ------------------------------------------------------ program constants

SizeofSizeT == 8
SizeofUnsigned == 4
SizeofPointer == 8
SizeofAlign == 16

NULL == 0

Max(a, b) == IF a >= b THEN a ELSE b

RoundUp(n, a) == ((n + a - 1) \div a) * a

\* sizeof(header_t): the union of struct { size_t; unsigned; pointer } and
\* char[16], each member at its natural alignment.
HeaderSize ==
  LET offNext == RoundUp(SizeofSizeT + SizeofUnsigned, SizeofPointer)
      structSize == RoundUp(offNext + SizeofPointer, Max(SizeofSizeT, SizeofPointer))
  IN  Max(structSize, SizeofAlign)

Word == 2 ^ WordBits
SizeMax == Word - 1

\* (void *)-1, sbrk's failure value
SbrkFailed == Word - 1

\* the conversion of a size_t to sbrk's intptr_t parameter
ToIntptr(n) == IF n < Word \div 2 THEN n ELSE n - Word

HeapStart == SizeofAlign * HeapStartUnits
HeapLimit == HeapStart + MaxHeapBytes

Threads == 1 .. NThreads
Addr == HeapStart .. (HeapLimit - 1)

\* the byte value standing for a byte of a written header
HdrMark == -1

\* the indeterminate content of memory the OS has just mapped, or unmapped
Junk == -2

\* what a caller writes into its blocks
Data == 1

VARIABLES
  brk,      \* the program break
  head,     \* header_t *head
  tail,     \* header_t *tail
  hdr,      \* header address -> [size, is_free, next] for the headers in mapped memory
  mem,      \* address -> byte
  limit,    \* the highest break the OS grants
  lock,     \* global_malloc_lock: 0 when free, else the owning thread
  th,       \* thread -> its call frame (position and locals)
  held,     \* thread -> the <<address, requested size>> pairs the caller owns
  snap,     \* history: the shared state when the lock was acquired by its present owner
  mods,     \* history: thread -> its current call has changed head, tail, a header or the break
  note,     \* history: thread -> facts recorded about the current call: the block calloc
            \* got from malloc held nonzero bytes; the payload of realloc's block at the call
  lastrel,  \* history: the block the latest critical section marked free, if it did
  scen      \* history: how far the calls have followed malloc(n) on an empty list, free of
            \* the block it returned, malloc(n)

vars == <<brk, head, tail, hdr, mem, limit, lock, th, held, snap, mods, note, lastrel, scen>>

shared == <<brk, head, tail, hdr>>

\* ------------------------------------------------------------ the frames

IdleFrame ==
  [pc |-> "idle", op |-> "idle", cont |-> "none",
   m_size |-> 0, m_header |-> 0, m_block |-> 0,
   f_block |-> 0, f_header |-> 0,
   c_num |-> 0, c_nsize |-> 0, c_size |-> 0, c_block |-> 0,
   r_block |-> 0, r_size |-> 0, r_header |-> 0, r_ret |-> 0,
   ret |-> 0]

NoSnap == [brk |-> 0, head |-> 0, tail |-> 0, hdr |-> <<>>]

NoNote == [dirty |-> FALSE, payload |-> <<>>]

NoRel == [header |-> 0, brk |-> 0]

NoScen == [stage |-> "none", t |-> 0, size |-> 0, x |-> 0, brk0 |-> 0, brk1 |-> 0]

Snapshot == [brk |-> brk, head |-> head, tail |-> tail, hdr |-> hdr]

At(t, l) == th[t].pc = l

Set(t, f) == th' = [th EXCEPT ![t] = f]

\* ------------------------------------------------------------ the memory

Fill(m, from, n, v) ==
  [a \in DOMAIN m |-> IF a >= from /\ a < from + n THEN v ELSE m[a]]

Copy(m, dst, src, n) ==
  [a \in DOMAIN m |->
     IF a >= dst /\ a < dst + n /\ (src + (a - dst)) \in DOMAIN m
       THEN m[src + (a - dst)] ELSE m[a]]

\* what is left of the headers and of the memory when the break is nb
Mapped(H, nb) == [h \in {x \in DOMAIN H : x < nb} |-> H[h]]

Unmap(m, nb) == [a \in DOMAIN m |-> IF a >= nb THEN Junk ELSE m[a]]

\* the header at h does not lie wholly below the break
Outside(h) == h + HeaderSize > brk

\* sbrk(delta) can succeed: the new break stays inside what the OS grants
SbrkCan(delta) == brk + delta >= HeapStart /\ brk + delta <= limit

\* ------------------------------------------------------- get_free_block

RECURSIVE Walk(_, _, _)
Walk(H, curr, size) ==
  IF curr = NULL THEN NULL
  ELSE IF H[curr].is_free # 0 /\ H[curr].size >= size THEN curr
  ELSE Walk(H, H[curr].next, size)

\* a search that takes the first free block whatever its size
RECURSIVE WalkAnySize(_, _)
WalkAnySize(H, curr) ==
  IF curr = NULL THEN NULL
  ELSE IF H[curr].is_free # 0 THEN curr
  ELSE WalkAnySize(H, H[curr].next)

get_free_block_any_size(size) == WalkAnySize(hdr, head)

get_free_block(size) == Walk(hdr, head, size)

\* --------------------------------------------------------- the histories

\* the calls of one thread, followed through malloc(n) on an empty list
\* ("alloc1", then "held" when it has returned a block), free of that block
\* ("free", then "freed") and malloc(n) again ("alloc2"); any other call, and
\* any call of another thread, ends the sequence
Scenario(t) ==
  LET f == th[t]
      g == th'[t]
  IN  scen' =
        IF f.pc = "idle" /\ g.pc # "idle"
          THEN IF g.op = "malloc" /\ scen.stage = "freed" /\ g.m_size = scen.size
                    /\ scen.t = t
                 THEN [scen EXCEPT !.stage = "alloc2"]
               ELSE IF g.op = "malloc" /\ g.m_size # 0 /\ head = NULL
                       /\ \A u \in Threads : th[u].pc = "idle"
                 THEN [NoScen EXCEPT !.stage = "alloc1", !.size = g.m_size,
                                     !.brk0 = brk, !.t = t]
               ELSE IF g.op = "free" /\ scen.stage = "held" /\ g.f_block = scen.x
                       /\ scen.t = t
                 THEN [scen EXCEPT !.stage = "free"]
               ELSE NoScen
        ELSE IF f.pc = "done" /\ g.pc = "idle" /\ scen.stage # "none" /\ scen.t = t
          THEN IF scen.stage = "alloc1" /\ f.ret # NULL
                 THEN [scen EXCEPT !.stage = "held", !.x = f.ret, !.brk1 = brk]
               ELSE IF scen.stage = "free"
                 THEN [scen EXCEPT !.stage = "freed"]
               ELSE NoScen
        ELSE scen

History(t) ==
  /\ limit' = limit
  /\ Scenario(t)
  /\ snap' = IF lock = 0 /\ lock' = t THEN Snapshot
             ELSE IF lock' = 0 THEN NoSnap ELSE snap
  /\ mods' = [mods EXCEPT ![t] =
                IF th'[t].pc = "idle" THEN FALSE ELSE @ \/ (shared' # shared)]
  /\ lastrel' = IF lock = t /\ lock' = 0
                  THEN (IF th[t].pc = "f184"
                          THEN [header |-> th[t].f_header, brk |-> brk] ELSE NoRel)
                  ELSE lastrel
  /\ note' = [note EXCEPT ![t] =
                IF th'[t].pc = "idle" THEN NoNote
                ELSE IF th[t].pc = "idle" /\ th'[t].op = "realloc" /\ th'[t].r_block # NULL
                  THEN [@ EXCEPT !.payload =
                          [i \in 1 .. hdr[th'[t].r_block - HeaderSize].size |->
                             mem[th'[t].r_block + i - 1]]]
                ELSE IF th[t].pc = "c212" /\ th[t].c_block # NULL
                  THEN [@ EXCEPT !.dirty =
                          \E a \in DOMAIN mem :
                             /\ a >= th[t].c_block /\ a < th[t].c_block + th[t].c_size
                             /\ mem[a] # 0]
                ELSE @]

\* a function returns v to its caller: the client (the call is done) or the
\* calling function, which goes on at th[t].cont (calloc at line 212, realloc
\* at line 230 after malloc and at line 235, return ret, after free)
Return(f, v) ==
  CASE f.cont = "done" -> [f EXCEPT !.pc = "done", !.ret = v, !.cont = "none"]
    [] f.cont = "c212" -> [f EXCEPT !.pc = "c212", !.c_block = v, !.cont = "none"]
    [] f.cont = "r230" -> [f EXCEPT !.pc = "r230", !.r_ret = v, !.cont = "none"]
    [] f.cont = "r235" -> [f EXCEPT !.pc = "done", !.ret = f.r_ret, !.cont = "none"]

\* ----------------------------------------------------------------- malloc

\* the entry that goes on without waiting for the lock to be free
MallocLockNoWait(t) ==
  /\ At(t, "m106")
  /\ IF th[t].m_size = 0
       THEN /\ lock' = lock
            /\ Set(t, Return(th[t], NULL))
       ELSE /\ lock' = t
            /\ Set(t, [th[t] EXCEPT !.pc = "m109"])
  /\ UNCHANGED <<brk, head, tail, hdr, mem, held>>
  /\ History(t)

\* lines 106-108: if (!size) return NULL; pthread_mutex_lock(&global_malloc_lock);
\* the thread waits until the lock is free
MallocLock(t) ==
  /\ At(t, "m106")
  /\ IF th[t].m_size = 0
       THEN /\ lock' = lock
            /\ Set(t, Return(th[t], NULL))
       ELSE /\ lock = 0
            /\ lock' = t
            /\ Set(t, [th[t] EXCEPT !.pc = "m109"])
  /\ UNCHANGED <<brk, head, tail, hdr, mem, held>>
  /\ History(t)

\* lines 109-110: header = get_free_block(size); if (header)
MallocSearch(t) ==
  /\ At(t, "m109")
  /\ LET header == get_free_block(th[t].m_size)
     IN  Set(t, [th[t] EXCEPT !.m_header = header,
                              !.pc = IF header # NULL THEN "m112" ELSE "m116"])
  /\ UNCHANGED <<brk, head, tail, hdr, mem, lock, held>>
  /\ History(t)

\* line 112: header->s.is_free = 0;
MallocReuse(t) ==
  /\ At(t, "m112")
  /\ hdr' = [hdr EXCEPT ![th[t].m_header].is_free = 0]
  /\ Set(t, [th[t] EXCEPT !.pc = "m113"])
  /\ UNCHANGED <<brk, head, tail, mem, lock, held>>
  /\ History(t)

\* lines 113-114: pthread_mutex_unlock; return (void *)(header + 1);
MallocUnlockReuse(t) ==
  /\ At(t, "m113")
  /\ lock' = 0
  /\ Set(t, Return(th[t], th[t].m_header + HeaderSize))
  /\ UNCHANGED <<brk, head, tail, hdr, mem, held>>
  /\ History(t)

\* the growth that rounds the total size up to a multiple of 16 and records
\* the size asked for
MallocGrowRounded(t) ==
  /\ At(t, "m116")
  /\ LET total_size == RoundUp(HeaderSize + th[t].m_size, SizeofAlign) % Word
         delta == ToIntptr(total_size)
     IN  \E ok \in BOOLEAN :
           /\ ok => SbrkCan(delta)
           /\ ~ok => (delta > 0 \/ ~SbrkCan(delta))
           /\ IF ok
                THEN /\ brk' = brk + delta
                     /\ hdr' = hdr
                     /\ mem' = Unmap(mem, brk + delta)
                     /\ Set(t, [th[t] EXCEPT !.m_block = brk, !.pc = "m123"])
                ELSE /\ UNCHANGED <<brk, hdr, mem>>
                     /\ Set(t, [th[t] EXCEPT !.m_block = SbrkFailed, !.pc = "m120"])
  /\ UNCHANGED <<head, tail, lock, held>>
  /\ History(t)

\* lines 116-118: total_size = sizeof(header_t) + size; block = sbrk(total_size);
\* sbrk fails when the OS does not grant the new break, and may fail for want
\* of memory whenever it is asked to grow. total_size is computed in size_t
\* and sbrk takes it as an intptr_t: a sum that wraps, or has its top bit set,
\* is a small or a negative increment. The headers stay where they were
\* written; a negative increment leaves the bytes above the new break to the
\* OS.
MallocGrow(t) ==
  /\ At(t, "m116")
  /\ LET total_size == (HeaderSize + th[t].m_size) % Word
         delta == ToIntptr(total_size)
     IN  \E ok \in BOOLEAN :
           /\ ok => SbrkCan(delta)
           /\ ~ok => (delta > 0 \/ ~SbrkCan(delta))
           /\ IF ok
                THEN /\ brk' = brk + delta
                     /\ hdr' = hdr
                     /\ mem' = Unmap(mem, brk + delta)
                     /\ Set(t, [th[t] EXCEPT !.m_block = brk, !.pc = "m123"])
                ELSE /\ UNCHANGED <<brk, hdr, mem>>
                     /\ Set(t, [th[t] EXCEPT !.m_block = SbrkFailed, !.pc = "m120"])
  /\ UNCHANGED <<head, tail, lock, held>>
  /\ History(t)

\* the failure path that returns with the lock still held
MallocFailNoUnlock(t) ==
  /\ At(t, "m120")
  /\ lock' = lock
  /\ Set(t, Return(th[t], NULL))
  /\ UNCHANGED <<brk, head, tail, hdr, mem, held>>
  /\ History(t)

\* lines 120-121: pthread_mutex_unlock; return NULL;
MallocFail(t) ==
  /\ At(t, "m120")
  /\ lock' = 0
  /\ Set(t, Return(th[t], NULL))
  /\ UNCHANGED <<brk, head, tail, hdr, mem, held>>
  /\ History(t)

\* the append that forgets to link the old tail to the new header
MallocLinkNoNext(t) ==
  /\ At(t, "m123")
  /\ LET header == th[t].m_block
         new == [size |-> th[t].m_size, is_free |-> 0, next |-> NULL]
     IN  /\ hdr' = [h \in DOMAIN hdr \cup {header} |-> IF h = header THEN new ELSE hdr[h]]
         /\ head' = IF head = NULL THEN header ELSE head
         /\ tail' = header
         /\ mem' = Fill(mem, header, HeaderSize, HdrMark)
         /\ Set(t, [th[t] EXCEPT !.m_header = header, !.pc = "m133"])
  /\ UNCHANGED <<brk, lock, held>>
  /\ History(t)

\* lines 123-132: the new header is written at block and appended to the list.
\* When sbrk was given a wrapped or negative increment, the new header, or the
\* tail's, lies partly or wholly above the break: the stores are undefined,
\* and either go through (the page is still there) or end the process.
MallocLink(t) ==
  /\ At(t, "m123")
  /\ LET header == th[t].m_block
         new == [size |-> th[t].m_size, is_free |-> 0, next |-> NULL]
         H1 == [h \in DOMAIN hdr \cup {header} |-> IF h = header THEN new ELSE hdr[h]]
         wild == Outside(header) \/ (tail # NULL /\ Outside(tail))
     IN  \E fault \in BOOLEAN :
           /\ fault => wild
           /\ IF fault
                THEN /\ UNCHANGED <<head, tail, hdr, mem>>
                     /\ Set(t, [th[t] EXCEPT !.pc = "segv"])
                ELSE /\ hdr' = IF tail # NULL THEN [H1 EXCEPT ![tail].next = header] ELSE H1
                     /\ head' = IF head = NULL THEN header ELSE head
                     /\ tail' = header
                     /\ mem' = Fill(mem, header, HeaderSize, HdrMark)
                     /\ Set(t, [th[t] EXCEPT !.m_header = header, !.pc = "m133"])
  /\ UNCHANGED <<brk, lock, held>>
  /\ History(t)

\* lines 133-134: pthread_mutex_unlock; return (void *)(header + 1);
MallocUnlock(t) ==
  /\ At(t, "m133")
  /\ lock' = 0
  /\ Set(t, Return(th[t], th[t].m_header + HeaderSize))
  /\ UNCHANGED <<brk, head, tail, hdr, mem, held>>
  /\ History(t)

malloc(t) ==
  \/ MallocLock(t) \/ MallocSearch(t) \/ MallocReuse(t)
  \/ MallocUnlockReuse(t) \/ MallocGrow(t) \/ MallocFail(t) \/ MallocLink(t)
  \/ MallocUnlock(t)

\* ------------------------------------------------------------------- free

\* lines 152-156: if (!block) return; pthread_mutex_lock(&global_malloc_lock);
\* the thread waits until the lock is free
FreeLock(t) ==
  /\ At(t, "f152")
  /\ IF th[t].f_block = NULL
       THEN /\ lock' = lock
            /\ Set(t, Return(th[t], NULL))
       ELSE /\ lock = 0
            /\ lock' = t
            /\ Set(t, [th[t] EXCEPT !.pc = "f157"])
  /\ UNCHANGED <<brk, head, tail, hdr, mem, held>>
  /\ History(t)

\* lines 157-160: header = (header_t *)block - 1; programbreak = sbrk(0);
\* if ((char *)block + header->s.size == programbreak)
FreeCheck(t) ==
  /\ At(t, "f157")
  /\ LET header == th[t].f_block - HeaderSize
         programbreak == brk
     IN  Set(t, [th[t] EXCEPT !.f_header = header,
                              !.pc = IF th[t].f_block + hdr[header].size = programbreak
                                       THEN "f162" ELSE "f183"])
  /\ UNCHANGED <<brk, head, tail, hdr, mem, lock, held>>
  /\ History(t)

\* lines 168-177: the scan for the block before tail, which becomes the tail
RECURSIVE Scan(_, _, _)
Scan(H, tl, tmp) ==
  IF tmp = NULL THEN [hdr |-> H, tail |-> tl]
  ELSE IF H[tmp].next = tl
    THEN LET H2 == [H EXCEPT ![tmp].next = NULL] IN Scan(H2, tmp, H2[tmp].next)
    ELSE Scan(H, tl, H[tmp].next)

\* the unlinking that empties tail and keeps head when the block is alone
FreeUnlinkKeepHead(t) ==
  /\ At(t, "f162")
  /\ IF head = tail
       THEN /\ head' = head
            /\ tail' = NULL
            /\ hdr' = hdr
       ELSE LET r == Scan(hdr, tail, head)
            IN  /\ head' = head
                /\ tail' = r.tail
                /\ hdr' = r.hdr
  /\ Set(t, [th[t] EXCEPT !.pc = "f179"])
  /\ UNCHANGED <<brk, mem, lock, held>>
  /\ History(t)

\* lines 162-178: the tail is taken off the list
FreeUnlink(t) ==
  /\ At(t, "f162")
  /\ IF head = tail
       THEN /\ head' = NULL
            /\ tail' = NULL
            /\ hdr' = hdr
       ELSE LET r == Scan(hdr, tail, head)
            IN  /\ head' = head
                /\ tail' = r.tail
                /\ hdr' = r.hdr
  /\ Set(t, [th[t] EXCEPT !.pc = "f179"])
  /\ UNCHANGED <<brk, mem, lock, held>>
  /\ History(t)

\* the shrink that gives back the payload and forgets the header
FreeShrinkPayloadOnly(t) ==
  /\ At(t, "f179")
  /\ LET arg == (0 - hdr[th[t].f_header].size) % Word
         delta == ToIntptr(arg)
         nb == IF SbrkCan(delta) THEN brk + delta ELSE brk
     IN  /\ brk' = nb
         /\ hdr' = Mapped(hdr, nb)
         /\ mem' = Unmap(mem, nb)
  /\ Set(t, [th[t] EXCEPT !.pc = "f180"])
  /\ UNCHANGED <<head, tail, lock, held>>
  /\ History(t)

\* line 179: sbrk(0 - sizeof(header_t) - header->s.size); the result is not
\* looked at. The headers above the new break are no longer in mapped memory.
FreeShrink(t) ==
  /\ At(t, "f179")
  /\ LET arg == (0 - HeaderSize - hdr[th[t].f_header].size) % Word
         delta == ToIntptr(arg)
         nb == IF SbrkCan(delta) THEN brk + delta ELSE brk
     IN  /\ brk' = nb
         /\ hdr' = Mapped(hdr, nb)
         /\ mem' = Unmap(mem, nb)
  /\ Set(t, [th[t] EXCEPT !.pc = "f180"])
  /\ UNCHANGED <<head, tail, lock, held>>
  /\ History(t)

\* lines 180-181: pthread_mutex_unlock; return;
FreeUnlockTrim(t) ==
  /\ At(t, "f180")
  /\ lock' = 0
  /\ Set(t, Return(th[t], NULL))
  /\ UNCHANGED <<brk, head, tail, hdr, mem, held>>
  /\ History(t)

\* the release that marks the block free and takes it for one byte smaller
FreeMarkShrunk(t) ==
  /\ At(t, "f183")
  /\ hdr' = [hdr EXCEPT ![th[t].f_header].is_free = 1,
                        ![th[t].f_header].size = @ - 1]
  /\ Set(t, [th[t] EXCEPT !.pc = "f184"])
  /\ UNCHANGED <<brk, head, tail, mem, lock, held>>
  /\ History(t)

\* line 183: header->s.is_free = 1;
FreeMark(t) ==
  /\ At(t, "f183")
  /\ hdr' = [hdr EXCEPT ![th[t].f_header].is_free = 1]
  /\ Set(t, [th[t] EXCEPT !.pc = "f184"])
  /\ UNCHANGED <<brk, head, tail, mem, lock, held>>
  /\ History(t)

\* line 184: pthread_mutex_unlock;
FreeUnlock(t) ==
  /\ At(t, "f184")
  /\ lock' = 0
  /\ Set(t, Return(th[t], NULL))
  /\ UNCHANGED <<brk, head, tail, hdr, mem, held>>
  /\ History(t)

free(t) ==
  \/ FreeLock(t) \/ FreeCheck(t) \/ FreeUnlink(t)
  \/ FreeShrink(t) \/ FreeUnlockTrim(t) \/ FreeMark(t) \/ FreeUnlock(t)

\* ----------------------------------------------------------------- calloc

\* the overflow check that compares the product with one factor only
CallocOverflowByCompare(num, nsize) == (num * nsize) % Word < num

\* line 207: the overflow check on size = num * nsize, computed in size_t
CallocOverflow(num, nsize) == nsize # ((num * nsize) % Word) \div num

\* lines 201-211: the argument checks, then block = malloc(size);
CallocEntry(t) ==
  /\ At(t, "c201")
  /\ LET num == th[t].c_num
         nsize == th[t].c_nsize
         size == (num * nsize) % Word
     IN  IF num = 0 \/ nsize = 0
           THEN Set(t, Return(th[t], NULL))
           ELSE IF CallocOverflow(num, nsize)
             THEN Set(t, Return([th[t] EXCEPT !.c_size = size], NULL))
             ELSE Set(t, [th[t] EXCEPT !.c_size = size, !.m_size = size,
                                       !.pc = "m106", !.cont = "c212"])
  /\ UNCHANGED <<brk, head, tail, hdr, mem, lock, held>>
  /\ History(t)

\* the fill that clears num bytes, not num * nsize
CallocFillCount(t) ==
  /\ At(t, "c212")
  /\ IF th[t].c_block = NULL
       THEN /\ mem' = mem
            /\ Set(t, [th[t] EXCEPT !.pc = "done", !.ret = NULL])
       ELSE /\ mem' = Fill(mem, th[t].c_block, th[t].c_num, 0)
            /\ Set(t, [th[t] EXCEPT !.pc = "done", !.ret = th[t].c_block])
  /\ UNCHANGED <<brk, head, tail, hdr, lock, held>>
  /\ History(t)

\* lines 212-217: if (!block) return NULL; memset(block, 0, size); return block;
CallocFill(t) ==
  /\ At(t, "c212")
  /\ IF th[t].c_block = NULL
       THEN /\ mem' = mem
            /\ Set(t, [th[t] EXCEPT !.pc = "done", !.ret = NULL])
       ELSE /\ mem' = Fill(mem, th[t].c_block, th[t].c_size, 0)
            /\ Set(t, [th[t] EXCEPT !.pc = "done", !.ret = th[t].c_block])
  /\ UNCHANGED <<brk, head, tail, hdr, lock, held>>
  /\ History(t)

calloc(t) == CallocEntry(t) \/ CallocFill(t)

\* ---------------------------------------------------------------- realloc

\* the entry that, as the C library's realloc may, releases the block when the
\* new size is zero
ReallocEntryFreeOnZero(t) ==
  /\ At(t, "r224")
  /\ IF th[t].r_block = NULL
       THEN Set(t, [th[t] EXCEPT !.m_size = th[t].r_size, !.pc = "m106", !.cont = "done"])
       ELSE IF th[t].r_size = 0
         THEN Set(t, [th[t] EXCEPT !.f_block = th[t].r_block, !.pc = "f152",
                                   !.cont = "r235"])
         ELSE Set(t, [th[t] EXCEPT !.pc = "r226"])
  /\ UNCHANGED <<brk, head, tail, hdr, mem, lock, held>>
  /\ History(t)

\* lines 224-225: if (!block || !size) return malloc(size);
ReallocEntry(t) ==
  /\ At(t, "r224")
  /\ IF th[t].r_block = NULL \/ th[t].r_size = 0
       THEN Set(t, [th[t] EXCEPT !.m_size = th[t].r_size, !.pc = "m106", !.cont = "done"])
       ELSE Set(t, [th[t] EXCEPT !.pc = "r226"])
  /\ UNCHANGED <<brk, head, tail, hdr, mem, lock, held>>
  /\ History(t)

\* the test that keeps the block only when it is larger than the new size
ReallocCheckStrict(t) ==
  /\ At(t, "r226")
  /\ LET header == th[t].r_block - HeaderSize
     IN  IF hdr[header].size > th[t].r_size
           THEN Set(t, [th[t] EXCEPT !.r_header = header, !.pc = "done",
                                     !.ret = th[t].r_block])
           ELSE Set(t, [th[t] EXCEPT !.r_header = header, !.m_size = th[t].r_size,
                                     !.pc = "m106", !.cont = "r230"])
  /\ UNCHANGED <<brk, head, tail, hdr, mem, lock, held>>
  /\ History(t)

\* lines 226-229: header = (header_t *)block - 1;
\* if (header->s.size >= size) return block; ret = malloc(size);
ReallocCheck(t) ==
  /\ At(t, "r226")
  /\ LET header == th[t].r_block - HeaderSize
     IN  IF hdr[header].size >= th[t].r_size
           THEN Set(t, [th[t] EXCEPT !.r_header = header, !.pc = "done",
                                     !.ret = th[t].r_block])
           ELSE Set(t, [th[t] EXCEPT !.r_header = header, !.m_size = th[t].r_size,
                                     !.pc = "m106", !.cont = "r230"])
  /\ UNCHANGED <<brk, head, tail, hdr, mem, lock, held>>
  /\ History(t)

\* the copy step that releases the old block also when malloc has failed
ReallocCopyFreeAlways(t) ==
  /\ At(t, "r230")
  /\ mem' = IF th[t].r_ret # NULL
              THEN Copy(mem, th[t].r_ret, th[t].r_block, hdr[th[t].r_header].size)
              ELSE mem
  /\ Set(t, [th[t] EXCEPT !.f_block = th[t].r_block, !.pc = "f152", !.cont = "r235"])
  /\ UNCHANGED <<brk, head, tail, hdr, lock, held>>
  /\ History(t)

\* the copy that leaves out the last byte of the old block
ReallocCopyShort(t) ==
  /\ At(t, "r230")
  /\ IF th[t].r_ret # NULL
       THEN /\ mem' = Copy(mem, th[t].r_ret, th[t].r_block, hdr[th[t].r_header].size - 1)
            /\ Set(t, [th[t] EXCEPT !.f_block = th[t].r_block, !.pc = "f152",
                                     !.cont = "r235"])
       ELSE /\ mem' = mem
            /\ Set(t, [th[t] EXCEPT !.pc = "done", !.ret = NULL])
  /\ UNCHANGED <<brk, head, tail, hdr, lock, held>>
  /\ History(t)

\* lines 230-233: if (ret) { memcpy(ret, block, header->s.size); free(block); }
ReallocCopy(t) ==
  /\ At(t, "r230")
  /\ IF th[t].r_ret # NULL
       THEN /\ mem' = Copy(mem, th[t].r_ret, th[t].r_block, hdr[th[t].r_header].size)
            /\ Set(t, [th[t] EXCEPT !.f_block = th[t].r_block, !.pc = "f152",
                                     !.cont = "r235"])
       ELSE /\ mem' = mem
            /\ Set(t, [th[t] EXCEPT !.pc = "done", !.ret = NULL])
  /\ UNCHANGED <<brk, head, tail, hdr, lock, held>>
  /\ History(t)

realloc(t) == ReallocEntry(t) \/ ReallocCheck(t) \/ ReallocCopy(t)

\* ------------------------------------------------------------- the callers

Owned(t) == {b[1] : b \in held[t]}

\* the sizes a caller asks for
ReqSizes == 0 .. MaxReq

\* calloc's arguments: the small ones, and pairs whose product overflows
CallocArgs ==
  {p \in ReqSizes \X ReqSizes : p[1] * p[2] <= MaxReq}
    \cup {<<Word \div 2, 2>>, <<SizeMax, SizeMax>>}

CallMalloc(t, n) ==
  /\ At(t, "idle")
  /\ Set(t, [IdleFrame EXCEPT !.op = "malloc", !.pc = "m106", !.cont = "done",
                              !.m_size = n])
  /\ UNCHANGED <<brk, head, tail, hdr, mem, lock, held>>
  /\ History(t)

CallFree(t, p) ==
  /\ At(t, "idle")
  /\ Set(t, [IdleFrame EXCEPT !.op = "free", !.pc = "f152", !.cont = "done",
                              !.f_block = p])
  /\ UNCHANGED <<brk, head, tail, hdr, mem, lock, held>>
  /\ History(t)

CallCalloc(t, num, nsize) ==
  /\ At(t, "idle")
  /\ Set(t, [IdleFrame EXCEPT !.op = "calloc", !.pc = "c201", !.cont = "done",
                              !.c_num = num, !.c_nsize = nsize])
  /\ UNCHANGED <<brk, head, tail, hdr, mem, lock, held>>
  /\ History(t)

CallRealloc(t, p, n) ==
  /\ At(t, "idle")
  /\ Set(t, [IdleFrame EXCEPT !.op = "realloc", !.pc = "r224", !.cont = "done",
                              !.r_block = p, !.r_size = n])
  /\ UNCHANGED <<brk, head, tail, hdr, mem, lock, held>>
  /\ History(t)

\* the caller fills a block it owns with its own data
Write(t) ==
  /\ At(t, "idle")
  /\ \E b \in held[t] : mem' = Fill(mem, b[1], b[2], Data)
  /\ UNCHANGED <<brk, head, tail, hdr, lock, th, held>>
  /\ History(t)

\* what the caller owns once the call has returned
HeldAfter(f, own) ==
  CASE f.op = "malloc" -> IF f.ret # NULL THEN own \cup {<<f.ret, f.m_size>>} ELSE own
    [] f.op = "calloc" -> IF f.ret # NULL THEN own \cup {<<f.ret, f.c_size>>} ELSE own
    [] f.op = "free" -> {b \in own : b[1] # f.f_block}
    [] f.op = "realloc" ->
         IF f.ret # NULL
           THEN {b \in own : b[1] # f.r_block} \cup {<<f.ret, f.r_size>>}
           ELSE own

\* the call returns to the caller
Done(t) ==
  /\ At(t, "done")
  /\ held' = [held EXCEPT ![t] = HeldAfter(th[t], @)]
  /\ Set(t, IdleFrame)
  /\ UNCHANGED <<brk, head, tail, hdr, mem, lock>>
  /\ History(t)

\* a caller that uses every operation with every small argument
caller(t) ==
  \/ \E n \in ReqSizes : CallMalloc(t, n)
  \/ \E p \in Owned(t) \cup {NULL} : CallFree(t, p)
  \/ \E a \in CallocArgs : CallCalloc(t, a[1], a[2])
  \/ \E p \in Owned(t) \cup {NULL}, n \in ReqSizes : CallRealloc(t, p, n)
  \/ Write(t)
  \/ Done(t)

allocator(t) == malloc(t) \/ free(t) \/ calloc(t) \/ realloc(t)

\* ----------------------------------------------------- the specifications

InitWith(lim) ==
  /\ brk = HeapStart
  /\ head = NULL
  /\ tail = NULL
  /\ hdr = <<>>
  /\ mem = [a \in Addr |-> Junk]
  /\ limit = lim
  /\ lock = 0
  /\ th = [t \in Threads |-> IdleFrame]
  /\ held = [t \in Threads |-> {}]
  /\ snap = NoSnap
  /\ mods = [t \in Threads |-> FALSE]
  /\ note = [t \in Threads |-> NoNote]
  /\ lastrel = NoRel
  /\ scen = NoScen

\* One caller, whose calls follow one another.
SeqInit == InitWith(HeapLimit)

SeqNext == caller(1) \/ allocator(1)

SeqSpec == SeqInit /\ [][SeqNext]_vars

\* Several callers at once, each using every operation, over a heap of at
\* most SmallHeapBytes.
busy(t) ==
  \/ \E n \in ReqSizes \ {0} : CallMalloc(t, n)
  \/ \E p \in Owned(t) : CallFree(t, p)
  \/ CallCalloc(t, 1, 1)
  \/ \E p \in Owned(t) : CallRealloc(t, p, MaxReq)
  \/ Done(t)

Init == InitWith(HeapStart + SmallHeapBytes)

Next == \E t \in Threads : busy(t) \/ allocator(t)

Spec == Init /\ [][Next]_vars

\* calloc's argument checks alone, on every pair of size_t values: the call
\* ends with NULL or stands at the entry of malloc.
CallocInit == InitWith(HeapLimit)

CallocNext ==
  \/ /\ At(1, "idle")
     /\ \E num \in 0 .. SizeMax, nsize \in 0 .. SizeMax : CallCalloc(1, num, nsize)
  \/ CallocEntry(1)
  \/ Done(1)

CallocSpec == CallocInit /\ [][CallocNext]_vars

\* One caller that only allocates and releases, with requests of
\* ScenarioSize bytes among the small ones.
ScenarioInit == InitWith(HeapLimit)

ScenarioNext ==
  \/ \E n \in (1 .. MaxReq) \cup {ScenarioSize} : CallMalloc(1, n)
  \/ \E p \in Owned(1) : CallFree(1, p)
  \/ Done(1)
  \/ malloc(1)
  \/ free(1)

ScenarioSpec == ScenarioInit /\ [][ScenarioNext]_vars

\* One caller of malloc and free whose requests are the small sizes and every
\* size from the one whose total size is the largest positive intptr_t up to
\* the largest size_t.
\* The calls are followed until malloc has returned a block for a request
\* whose total size wrapped or was taken as a negative increment, or the
\* process has ended: what the list holds after that depends on how headers
\* that overlap are laid out byte by byte.
WideSizes == (1 .. MaxReq) \cup ((Word \div 2 - HeaderSize - 1) .. SizeMax)

Wraps(n) == HeaderSize + n > SizeMax \/ ToIntptr(HeaderSize + n) <= 0

Astray == (\E b \in held[1] : Wraps(b[2])) \/ th[1].pc = "segv"

WideInit == InitWith(HeapStart + SmallHeapBytes)

WideNext ==
  \/ /\ At(1, "idle") /\ ~Astray
     /\ \E n \in WideSizes : CallMalloc(1, n)
  \/ /\ ~Astray
     /\ \E p \in Owned(1) : CallFree(1, p)
  \/ /\ ~Astray
     /\ Write(1)
  \/ Done(1)
  \/ malloc(1)
  \/ free(1)

WideSpec == WideInit /\ [][WideNext]_vars

\* ------------------------------------------------------ the fair version

\* The scheduler lets every thread that can take a step of the allocator take
\* it, and a thread that waits for the lock gets it when it is free again and
\* again. A caller need not call.
FairSpec ==
  /\ Spec
  /\ \A t \in Threads :
       /\ WF_vars(allocator(t))
       /\ SF_vars(MallocLock(t))
       /\ SF_vars(FreeLock(t))

\* ------------------------------------------------- the words of the claims

RECURSIVE ListOf(_, _)
ListOf(H, h) == IF h = NULL THEN <<>> ELSE <<h>> \o ListOf(H, H[h].next)

\* the headers of a snapshot in list order
Blocks(S) == ListOf(S.hdr, S.head)

IndexOf(q, x) == CHOOSE i \in 1 .. Len(q) : q[i] = x

InList(q, x) == \E i \in 1 .. Len(q) : q[i] = x

\* the free blocks of S that hold n bytes
Fits(S, n) ==
  {h \in DOMAIN S.hdr :
     InList(Blocks(S), h) /\ S.hdr[h].is_free # 0 /\ S.hdr[h].size >= n}

\* the one that comes first in the list
Earliest(S, n) ==
  CHOOSE h \in Fits(S, n) :
    \A g \in Fits(S, n) : IndexOf(Blocks(S), h) <= IndexOf(Blocks(S), g)

\* the positions of a thread inside the section the lock guards
MallocSection == {"m109", "m112", "m113", "m116", "m120", "m123", "m133"}
FreeSection == {"f157", "f162", "f179", "f180", "f183", "f184"}

InSection(t) == th[t].pc \in MallocSection \cup FreeSection

\* malloc has searched the list and holds the lock
Searched(t) == lock = t /\ th[t].pc \in MallocSection \ {"m109"}

\* malloc has just returned into frame f: the value it returned, or -1
MallocValue(f) ==
  CASE f.pc = "c212" -> f.c_block
    [] f.pc = "r230" -> f.r_ret
    [] f.pc = "done" /\ f.op = "malloc" -> f.ret
    [] f.pc = "done" /\ f.op = "realloc" /\ (f.r_block = NULL \/ f.r_size = 0) -> f.ret
    [] OTHER -> 0 - 1

\* ------------------------------------------------------------ the claims

\* C1. First-fit reuse: when malloc(size), size > 0, finds the list holding a
\* free block of recorded size >= size, it takes the first such block in list
\* order, clears only that block's is_free, leaves every other header field,
\* head, tail and the break as they were, and returns that header's address
\* plus the header size; it takes no free block when none fits.
C1_FirstFitReuse ==
  \A t \in Threads :
    LET f == th[t] IN
      /\ (Searched(t) /\ Fits(snap, f.m_size) # {}) =>
           LET h == Earliest(snap, f.m_size) IN
             /\ f.pc \in {"m112", "m113"}
             /\ f.m_header = h
             /\ brk = snap.brk /\ head = snap.head /\ tail = snap.tail
             /\ hdr = IF f.pc = "m113" THEN [snap.hdr EXCEPT ![h].is_free = 0]
                                       ELSE snap.hdr
      /\ (Searched(t) /\ Fits(snap, f.m_size) = {}) => f.pc \notin {"m112", "m113"}
      /\ (MallocValue(f) # 0 - 1 /\ f.m_header # NULL /\ f.m_block = 0) =>
           MallocValue(f) = f.m_header + HeaderSize

\* malloc is about to return a reused block though a later free block fits
\* the request more tightly
C1_Witness ==
  \E t \in Threads :
    /\ Searched(t) /\ th[t].pc = "m113"
    /\ \E g \in Fits(snap, th[t].m_size) :
         /\ g # th[t].m_header
         /\ snap.hdr[g].size < snap.hdr[th[t].m_header].size

\* the list after header h of size n has been appended to the list of S
Appended(S, h, n) ==
  [x \in DOMAIN S.hdr \cup {h} |->
     IF x = h THEN [size |-> n, is_free |-> 0, next |-> NULL]
     ELSE IF x = S.tail THEN [S.hdr[x] EXCEPT !.next = h]
     ELSE S.hdr[x]]

\* the request is one sbrk is asked to grow the heap for
Growable(n) == n > 0 /\ HeaderSize + n <= SizeMax /\ ToIntptr(HeaderSize + n) > 0

\* C2. Growth: when malloc(size), size > 0 and header size + size in range,
\* finds no fitting free block and sbrk succeeds, the break rises by exactly
\* header size + size, one header [size, not free, no next] is written at the
\* old break and appended after the old tail (it is the tail, and the head of
\* an empty list), no other header changes but the old tail's next, and the
\* old break plus the header size is returned.
C2_GrowthPath ==
  \A t \in Threads :
    LET f == th[t] IN
      /\ (Searched(t) /\ f.pc \in {"m123", "m133"} /\ Growable(f.m_size)) =>
           /\ Fits(snap, f.m_size) = {}
           /\ f.m_block = snap.brk
           /\ brk = snap.brk + HeaderSize + f.m_size
      /\ (Searched(t) /\ f.pc = "m123") =>
           /\ hdr = snap.hdr /\ head = snap.head /\ tail = snap.tail
      /\ (Searched(t) /\ f.pc = "m133" /\ Growable(f.m_size)) =>
           /\ f.m_header = snap.brk
           /\ hdr = Appended(snap, snap.brk, f.m_size)
           /\ tail = snap.brk
           /\ head = IF snap.head = NULL THEN snap.brk ELSE snap.head
      /\ (MallocValue(f) # 0 - 1 /\ f.m_block \notin {0, SbrkFailed} /\ Growable(f.m_size)) =>
           MallocValue(f) = f.m_block + HeaderSize

\* malloc has grown a heap that already held blocks and linked the new one
C2_Witness ==
  \E t \in Threads :
    /\ Searched(t) /\ th[t].pc = "m133"
    /\ snap.tail # NULL /\ snap.tail # snap.head
    /\ hdr[snap.tail].next = tail

\* C3. Trim on release: free takes the trim path exactly when the block ends
\* at the break; then the block taken off the list is the released block,
\* which is the tail, the block before it is the new tail with no next (head
\* and tail are both empty if it was alone), the break falls by exactly
\* header size + recorded size, and no other header's size or is_free changes.
C3_TrimOnRelease ==
  \A t \in Threads :
    LET f == th[t] IN
      /\ (lock = t /\ f.pc \in FreeSection \ {"f157"}) =>
           ((f.pc \in {"f162", "f179", "f180"})
              <=> (f.f_block + snap.hdr[f.f_header].size = snap.brk))
      /\ (lock = t /\ f.pc = "f180") =>
           LET q == Blocks(snap)
               h == f.f_header
           IN  /\ h = snap.tail /\ q[Len(q)] = h
               /\ Blocks(Snapshot) = SubSeq(q, 1, Len(q) - 1)
               /\ brk = snap.brk - (HeaderSize + snap.hdr[h].size)
               /\ IF Len(q) = 1
                    THEN head = NULL /\ tail = NULL
                    ELSE head = snap.head /\ tail = q[Len(q) - 1] /\ hdr[tail].next = NULL
               /\ \A x \in DOMAIN snap.hdr \ {h} :
                    /\ x \in DOMAIN hdr
                    /\ hdr[x].size = snap.hdr[x].size
                    /\ hdr[x].is_free = snap.hdr[x].is_free
                    /\ x # tail => hdr[x].next = snap.hdr[x].next

\* free has trimmed the last of several blocks, and the new tail is a free block
C3_Witness ==
  \E t \in Threads :
    /\ lock = t /\ th[t].pc = "f180"
    /\ Len(Blocks(snap)) >= 2
    /\ tail # NULL /\ hdr[tail].is_free # 0

\* C4. Release of a block that does not end at the break: only that block's
\* is_free is set, head, tail, the list, every size and the break stay as they
\* were; and when the next use of the list is a malloc(n), n no larger than
\* that block's recorded size, for which the block is the first fitting free
\* one, malloc takes that very block and the break is still where it was.
C4_NonTerminalRelease ==
  \A t \in Threads :
    LET f == th[t] IN
      /\ (lock = t /\ f.pc = "f183") => Snapshot = snap
      /\ (lock = t /\ f.pc = "f184") =>
           /\ f.f_block + snap.hdr[f.f_header].size # snap.brk
           /\ hdr = [snap.hdr EXCEPT ![f.f_header].is_free = 1]
           /\ head = snap.head /\ tail = snap.tail /\ brk = snap.brk
      /\ (/\ Searched(t) /\ lastrel.header # NULL
          /\ lastrel.header \in Fits(snap, f.m_size)
          /\ Earliest(snap, f.m_size) = lastrel.header) =>
           /\ f.pc \in {"m112", "m113"}
           /\ f.m_header = lastrel.header
           /\ hdr[lastrel.header].size = snap.hdr[lastrel.header].size
           /\ brk = lastrel.brk

\* the malloc after a release takes the released block for a smaller request
C4_Witness ==
  \E t \in Threads :
    /\ Searched(t) /\ th[t].pc = "m113"
    /\ lastrel.header = th[t].m_header
    /\ th[t].m_size < hdr[th[t].m_header].size
    /\ hdr[th[t].m_header].is_free = 0

\* C5. Mutual exclusion: at most one thread is between the lock and the
\* unlock of malloc or free, that thread owns the lock, and until it has
\* changed the list or the break itself it finds them as they were when it
\* took the lock.
C5_MutualExclusion ==
  /\ \A t1, t2 \in Threads : (InSection(t1) /\ InSection(t2)) => t1 = t2
  /\ \A t \in Threads : InSection(t) => lock = t
  /\ \A t \in Threads :
       (lock = t /\ th[t].pc \in {"m109", "m112", "m116", "f157", "f162", "f183"})
         => Snapshot = snap

\* one thread is inside the guarded section of free while another one, inside
\* realloc, waits at malloc's lock
C5_Witness ==
  \E t1, t2 \in Threads :
    /\ t1 # t2
    /\ th[t1].pc \in FreeSection
    /\ th[t2].pc = "m106" /\ th[t2].m_size # 0 /\ th[t2].op = "realloc"

\* a call is in progress
InCall(t) == th[t].pc \notin {"idle", "done"}

HeldLive(t) ==
  \A b \in held[t] :
    /\ InList(Blocks(Snapshot), b[1] - HeaderSize)
    /\ hdr[b[1] - HeaderSize].is_free = 0

\* C7. A call of malloc, calloc or realloc that returns NULL (zero size, zero
\* count or element size, overflow, failed growth) has changed neither head,
\* tail, a header nor the break, so every block the caller owns, the block
\* passed to a failing realloc included, is still in the list and not free;
\* free(NULL) changes nothing either.
C7_NullLeavesState ==
  \A t \in Threads :
    LET f == th[t] IN
      (/\ f.pc = "done"
       /\ \/ f.op \in {"malloc", "calloc", "realloc"} /\ f.ret = NULL
          \/ f.op = "free" /\ f.f_block = NULL) =>
        /\ ~mods[t]
        /\ HeldLive(t)

\* a realloc to a larger size has returned NULL because sbrk failed, and the
\* caller still owns the block
C7_Witness ==
  \E t \in Threads :
    /\ th[t].pc = "done" /\ th[t].op = "realloc" /\ th[t].ret = NULL
    /\ th[t].r_block # NULL /\ th[t].r_size # 0
    /\ th[t].m_block = SbrkFailed
    /\ th[t].r_block \in Owned(t)

\* C8. Overflow detection in calloc: for nonzero num and nsize in the range of
\* size_t, calloc returns NULL without entering malloc (and so without sbrk)
\* exactly when num * nsize exceeds the largest size_t; otherwise it calls
\* malloc with the product.
C8_OverflowDetected ==
  \A t \in Threads :
    LET f == th[t] IN
      (f.op = "calloc" /\ f.pc # "c201" /\ f.c_num # 0 /\ f.c_nsize # 0) =>
        IF f.c_num * f.c_nsize > SizeMax
          THEN /\ f.pc = "done" /\ f.ret = NULL
               /\ f.m_size = 0 /\ f.m_block = 0 /\ ~mods[t]
          ELSE /\ f.m_size = f.c_num * f.c_nsize
               /\ f.pc = "done" => (f.m_header # NULL \/ f.m_block # 0)

\* calloc has returned NULL for a product that wraps to a size malloc would
\* have served
C8_Witness ==
  \E t \in Threads :
    /\ th[t].op = "calloc" /\ th[t].pc = "done" /\ th[t].ret = NULL
    /\ th[t].c_num * th[t].c_nsize > SizeMax
    /\ th[t].c_size > 0 /\ th[t].c_size < th[t].c_num /\ th[t].c_size < th[t].c_nsize

\* C9. Zero fill: when calloc(num, nsize) returns an address, every byte from
\* it up to num * nsize bytes further reads as zero, also when the block is a
\* reused one that held a caller's data.
C9_ZeroFill ==
  \A t \in Threads :
    LET f == th[t] IN
      (f.op = "calloc" /\ f.pc = "done" /\ f.ret # NULL) =>
        /\ f.ret = f.m_header + HeaderSize
        /\ \A a \in f.ret .. (f.ret + f.c_num * f.c_nsize - 1) : mem[a] = 0

\* calloc has returned a reused block that held a caller's data
C9_Witness ==
  \E t \in Threads :
    /\ th[t].op = "calloc" /\ th[t].pc = "done" /\ th[t].ret # NULL
    /\ th[t].m_block = 0
    /\ note[t].dirty
    /\ th[t].c_size > 1

\* what malloc(n) makes of the list and the break of S
AllocReuse(S, n) == [S EXCEPT !.hdr[Earliest(S, n)].is_free = 0]

AllocGrow(S, n) ==
  [brk |-> S.brk + HeaderSize + n,
   head |-> IF S.head = NULL THEN S.brk ELSE S.head,
   tail |-> S.brk,
   hdr |-> Appended(S, S.brk, n)]

\* C10. realloc(NULL, n) does what malloc(n) does: it reuses the first fitting
\* free block, or grows the heap by one block, or fails and changes nothing,
\* and returns that block's address or NULL; it never looks at a header of
\* its argument, copies or frees. realloc(X, 0) on a live block X returns NULL
\* and leaves X in the list and not free, the break and the list unchanged.
C10_ReallocAsMalloc ==
  \A t \in Threads :
    LET f == th[t]
        n == f.r_size
    IN  (f.op = "realloc" /\ (f.r_block = NULL \/ f.r_size = 0)) =>
          /\ f.pc \in {"r224", "m106", "done"} \cup MallocSection
          /\ f.r_header = NULL /\ f.f_block = NULL
          /\ (lock = t /\ f.pc \in {"m113", "m120", "m133"}) =>
               IF Fits(snap, n) # {}
                 THEN /\ f.pc = "m113" /\ f.m_header = Earliest(snap, n)
                      /\ Snapshot = AllocReuse(snap, n)
                 ELSE IF f.pc = "m133"
                   THEN f.m_header = snap.brk /\ Snapshot = AllocGrow(snap, n)
                   ELSE f.pc = "m120" /\ Snapshot = snap
          /\ f.pc = "done" =>
               f.ret = IF f.m_header # NULL THEN f.m_header + HeaderSize ELSE NULL
          /\ (f.pc = "done" /\ n = 0) =>
               /\ f.ret = NULL /\ ~mods[t]
               /\ HeldLive(t)

\* realloc(NULL, n) has returned a reused block while the caller owns another
C10_Witness ==
  \E t \in Threads :
    /\ th[t].op = "realloc" /\ th[t].pc = "done"
    /\ th[t].r_block = NULL /\ th[t].ret # NULL
    /\ th[t].m_block = 0
    /\ held[t] # {}

\* realloc(X, n) on a block X whose recorded size covers n > 0
ReallocFits(f) ==
  /\ f.op = "realloc" /\ f.r_block # NULL /\ f.r_size > 0
  /\ f.r_block - HeaderSize \in DOMAIN hdr
  /\ hdr[f.r_block - HeaderSize].size >= f.r_size

\* C11. Resize that already fits: realloc(X, n) with 0 < n <= the recorded
\* size of the live block X returns X; no step of the call changes head, tail,
\* a header, the break, the lock or a byte of memory, and the call enters
\* neither malloc nor the copy nor free.
C11_ResizeFits ==
  /\ [][\A t \in Threads :
         (ReallocFits(th[t]) /\ th[t].pc \in {"r224", "r226"} /\ th'[t] # th[t]) =>
           /\ UNCHANGED <<brk, head, tail, hdr, mem, lock>>
           /\ th'[t].pc \in {"r226", "done"}
           /\ th'[t].pc = "done" => th'[t].ret = th[t].r_block]_vars
  /\ [](\A t \in Threads :
         (ReallocFits(th[t]) /\ th[t].pc = "done") =>
           /\ th[t].ret = th[t].r_block
           /\ ~mods[t]
           /\ th[t].m_size = 0 /\ th[t].r_ret = NULL /\ th[t].f_block = NULL)

\* realloc has returned the block it was given for a size larger than the one
\* the caller had asked for when it got the block, a reused one
C11_Witness ==
  \E t \in Threads :
    /\ th[t].op = "realloc" /\ th[t].pc = "done"
    /\ th[t].ret = th[t].r_block /\ th[t].r_block # NULL
    /\ \E b \in held[t] : b[1] = th[t].r_block /\ b[2] < th[t].r_size
    /\ \E a \in Addr : a >= th[t].r_block /\ a < th[t].r_block + th[t].r_size
                         /\ mem[a] = Data

\* realloc(X, n) has returned a block it got from malloc for a live block X
ReallocMoved(f) ==
  /\ f.op = "realloc" /\ f.pc = "done"
  /\ f.r_block # NULL /\ f.r_size > 0 /\ f.r_ret # NULL

\* C12. Resize that must grow: when realloc(X, n), n larger than the recorded
\* size s of the live block X, gets a block from malloc, it returns that block
\* Y # X, whose header is in the list and not free and whose first s bytes are
\* the bytes X held when realloc was called; X has been released as free
\* releases: marked free and left in the list when it does not end at the
\* break, taken off the list with the break lowered to its header when it does.
C12_ResizeGrows ==
  \A t \in Threads :
    LET f == th[t]
        X == f.r_block
        Y == f.ret
        s == Len(note[t].payload)
    IN  /\ (f.op = "realloc" /\ f.pc \in {"r230", "f152"} /\ f.r_ret # NULL
             /\ f.r_block # NULL) =>
              /\ s < f.r_size /\ hdr[f.r_header].size = s
              /\ \A i \in 1 .. s : mem[X + i - 1] = note[t].payload[i]
        /\ ReallocMoved(f) =>
              /\ Y = f.r_ret /\ Y # X /\ s < f.r_size
              /\ Y - HeaderSize \in DOMAIN hdr
              /\ InList(Blocks(Snapshot), Y - HeaderSize)
              /\ hdr[Y - HeaderSize].is_free = 0
              /\ hdr[Y - HeaderSize].size >= f.r_size
              /\ \A i \in 1 .. s : mem[Y + i - 1] = note[t].payload[i]
              /\ IF X - HeaderSize \in DOMAIN hdr
                   THEN /\ InList(Blocks(Snapshot), X - HeaderSize)
                        /\ hdr[X - HeaderSize].is_free = 1
                        /\ hdr[X - HeaderSize].size = s
                        /\ X + s # brk
                   ELSE /\ ~InList(Blocks(Snapshot), X - HeaderSize)
                        /\ brk = X - HeaderSize

\* realloc has moved a block holding the caller's data into a reused block
\* and trimmed the old one, which ended at the break
C12_Witness ==
  \E t \in Threads :
    /\ ReallocMoved(th[t])
    /\ th[t].m_block = 0
    /\ brk = th[t].r_block - HeaderSize
    /\ \E i \in 1 .. Len(note[t].payload) : note[t].payload[i] = Data

\* the second malloc of the sequence has returned a block
SecondAlloc(t) ==
  /\ scen.stage = "alloc2" /\ scen.t = t
  /\ th[t].pc = "done" /\ th[t].op = "malloc" /\ th[t].ret # NULL

\* C13 as the scenario states it: the second malloc(n) returns an address
\* other than X, the address the first one returned.
C13_FreshAddressNotX ==
  \A t \in Threads : SecondAlloc(t) => th[t].ret # scen.x

\* C13. Scenario A as the code runs it: malloc(n) on an empty list grows the
\* heap by header size + n and returns X, the old break plus the header size,
\* X's block being the only one; free(X) lowers the break by header size + n
\* and empties the list; the next malloc(n) finds no block to reuse, grows the
\* heap again by header size + n and returns the block at the break the trim
\* left, which is the address X again.
C13_ScenarioA ==
  \A t \in Threads :
    LET f == th[t] IN
      /\ (scen.stage = "held" /\ scen.t = t) =>
           /\ scen.x = scen.brk0 + HeaderSize
           /\ scen.brk1 = scen.brk0 + HeaderSize + scen.size
           /\ (f.pc = "idle" /\ lock = 0) =>
                /\ brk = scen.brk1
                /\ head = scen.brk0 /\ tail = scen.brk0
                /\ hdr[head] = [size |-> scen.size, is_free |-> 0, next |-> NULL]
      /\ (scen.stage = "freed" /\ scen.t = t /\ f.pc = "idle" /\ lock = 0) =>
           /\ brk = scen.brk1 - (HeaderSize + scen.size)
           /\ head = NULL /\ tail = NULL /\ hdr = <<>>
      /\ (scen.stage = "alloc2" /\ scen.t = t /\ Searched(t)) =>
           f.pc \notin {"m112", "m113"}
      /\ SecondAlloc(t) =>
           /\ f.m_block = scen.brk0
           /\ f.ret = f.m_block + HeaderSize
           /\ f.ret = scen.x
           /\ lock = 0 =>
                /\ brk = scen.brk0 + HeaderSize + scen.size
                /\ head = f.m_block /\ tail = f.m_block
                /\ hdr[head] = [size |-> scen.size, is_free |-> 0, next |-> NULL]

\* the second malloc(ScenarioSize) of the sequence has returned
C13_Witness ==
  \E t \in Threads :
    /\ SecondAlloc(t)
    /\ scen.size = ScenarioSize
    /\ th[t].ret = scen.x
    /\ brk = HeapStart + HeaderSize + ScenarioSize

\* block p is the argument of the call thread u is in
Argument(u, p) ==
  \/ th[u].op = "free" /\ th[u].f_block = p
  \/ th[u].op = "realloc" /\ th[u].r_block = p

\* C14. Payload integrity: no step of malloc, free, calloc or realloc changes
\* a byte of the requested range of a block some caller owns, unless the
\* block is the argument of its owner's own call of free or realloc; a byte
\* given back to the OS under a block is a changed byte.
C14_PayloadIntegrity ==
  [][th' # th =>
       \A u \in Threads : \A b \in held[u] :
         ~Argument(u, b[1]) =>
           \A a \in Addr : (a >= b[1] /\ a < b[1] + b[2]) => mem'[a] = mem[a]]_vars

\* C15. Alignment: the break starting at a multiple of 16, every address
\* malloc, calloc or realloc returns to the caller is a multiple of 16.
C15_Aligned16 ==
  \A t \in Threads :
    (th[t].pc = "done" /\ th[t].op \in {"malloc", "calloc", "realloc"}
       /\ th[t].ret # NULL) =>
      /\ HeapStart % SizeofAlign = 0
      /\ th[t].ret % SizeofAlign = 0

\* the next step of thread t reads or writes head, tail, a header field or
\* the break: the steps of malloc from the search to the linking, those of
\* free from the end-of-heap test to the marking, realloc's test of
\* header->s.size and its memcpy of header->s.size bytes
Accessing(t) ==
  \/ th[t].pc \in {"m109", "m112", "m116", "m123", "f157", "f162", "f179", "f183"}
  \/ th[t].pc = "r226"
  \/ th[t].pc = "r230" /\ th[t].r_ret # NULL

\* C16. Guarded access: a thread reads or writes head, tail, a header field
\* or the break only while it holds the lock, realloc's reads of the old
\* block's size included.
C16_GuardedAccess ==
  \A t \in Threads : Accessing(t) => lock = t

\* no call is under way
Quiet == \A t \in Threads : th[t].pc \in {"idle", "done"}

\* C17. Heap boundary: when no call is under way (and whenever the lock is
\* free), the break is the end of the tail's block, its header address plus
\* the header size plus its recorded size, and it is the initial break when
\* the list is empty; so after growths, failed growths, releases and trims,
\* the callers asking for sizes whose total size does not overflow.
C17_BoundaryInvariant ==
  (Quiet \/ lock = 0) =>
    IF tail # NULL
      THEN brk = tail + HeaderSize + hdr[tail].size
      ELSE brk = HeapStart /\ head = NULL

\* a growth has failed while the tail is a free block that became the tail
\* when the block after it was trimmed
C17_Witness ==
  \E t \in Threads :
    /\ Quiet
    /\ th[t].pc = "done" /\ th[t].op = "malloc" /\ th[t].ret = NULL
    /\ th[t].m_block = SbrkFailed
    /\ tail # NULL /\ tail # head /\ hdr[tail].is_free = 1
    /\ brk = tail + HeaderSize + hdr[tail].size

\* C18. List well-formedness: when no call is under way, head is NULL iff
\* tail is; the list from head holds no header twice and ends with tail,
\* whose next is NULL; the headers come in rising address order, each block
\* ending where the next header starts; and no listed header lies at or
\* above the break.
C18_ListWellFormed ==
  Quiet =>
    LET q == Blocks(Snapshot) IN
      /\ (head = NULL) <=> (tail = NULL)
      /\ \A i, j \in 1 .. Len(q) : q[i] = q[j] => i = j
      /\ head # NULL => (q[Len(q)] = tail /\ hdr[tail].next = NULL)
      /\ \A i \in 1 .. Len(q) - 1 :
           /\ q[i] < q[i + 1]
           /\ q[i] + HeaderSize + hdr[q[i]].size = q[i + 1]
      /\ \A i \in 1 .. Len(q) : q[i] < brk

\* the addresses thread t holds: the blocks it owns, but for the one it has
\* passed to the free or realloc it is in, and the block the call it is in
\* has just returned
HeldNow(t) ==
  {p \in Owned(t) : ~Argument(t, p)}
    \cup (IF th[t].pc = "done" /\ th[t].op \in {"malloc", "calloc", "realloc"}
              /\ th[t].ret # NULL
           THEN {th[t].ret} ELSE {})

AllHeld == UNION {HeldNow(t) : t \in Threads}

\* C19. No double hand-out: no address is held by two callers; the payloads
\* of the held blocks, each from its address up to its recorded size, lie
\* below the break and do not overlap; and malloc reuses a block only when
\* its is_free was set.
C19_NoDoubleHandOut ==
  /\ \A t, u \in Threads : t # u => HeldNow(t) \cap HeldNow(u) = {}
  /\ \A p \in AllHeld :
       /\ p - HeaderSize \in DOMAIN hdr
       /\ hdr[p - HeaderSize].is_free = 0
       /\ p + hdr[p - HeaderSize].size <= brk
  /\ \A p, r \in AllHeld :
       (p < r /\ r - HeaderSize \in DOMAIN hdr /\ p - HeaderSize \in DOMAIN hdr) =>
         p + hdr[p - HeaderSize].size <= r
  /\ \A t \in Threads :
       (lock = t /\ th[t].pc \in {"m112", "m113"}) =>
         snap.hdr[th[t].m_header].is_free # 0

\* C20. Size arithmetic on growth: for every size > 0 of size_t, when malloc
\* has grown the heap and is about to return the new block, the break has
\* risen by exactly header size + size and the block's size bytes lie below
\* it; and a request whose total size wraps, or is not a positive increment,
\* returns NULL.
C20_GrowthArithmetic ==
  \A t \in Threads :
    LET f == th[t] IN
      /\ (lock = t /\ f.pc = "m133") =>
           /\ brk = snap.brk + HeaderSize + f.m_size
           /\ f.m_header + HeaderSize + f.m_size <= brk
      /\ (f.pc = "done" /\ f.op = "malloc" /\ f.m_size > 0 /\ Wraps(f.m_size)) =>
           f.ret = NULL

====
